---- MODULE Spec2Model ----
(***************************************************************************)
(* Model of unifi_mcp: the tool handlers of server.py and the upstream     *)
(* client of unifi_api.py.                                                 *)
(*                                                                         *)
(* A Python str is a sequence of tokens; the character "/" is always a     *)
(* token of its own, so that rstrip("/") and strip("/") are computed.      *)
(* os.environ is a function from the names that are set to their values.   *)
(* Every tool invocation is an asyncio task; one action is the code a task *)
(* runs between two suspension points (await of the GET, await of aclose). *)
(***************************************************************************)
EXTENDS Naturals, Sequences, FiniteSets, TLC

\* number of tool invocations that may be in flight together
NumInv == 2

Tasks == 1..NumInv

\* object identities of UniFiSiteManagerClient instances; 0 is "no object"
ClientIds == Tasks
NoClient == 0

VARIABLES
    environ,   \* os.environ of the process
    pc,        \* task -> "idle" | "awaiting" | "closing" | "done"
    tool,      \* task -> name of the tool invoked
    arg,       \* task -> site_id argument (<<>> when the tool takes none)
    c,         \* task -> the local variable c of the handler
    r,         \* task -> the local variable r of the client method
    op,        \* task -> outcome of "await c.<method>(...)"
    result,    \* task -> what the caller of the tool receives
    clients,   \* heap: client id -> UniFiSiteManagerClient object
    sent,      \* client id -> requests issued through its AsyncClient
    stalled    \* client id -> the upstream lets the request outlast the timeout

vars == <<environ, pc, tool, arg, c, r, op, result, clients, sent, stalled>>

----------------------------------------------------------------------------
(* str helpers *)

RECURSIVE RStrip(_, _)
RStrip(s, ch) ==
    IF s # <<>> /\ s[Len(s)] = ch THEN RStrip(SubSeq(s, 1, Len(s) - 1), ch) ELSE s

RECURSIVE LStrip(_, _)
LStrip(s, ch) ==
    IF s # <<>> /\ s[1] = ch THEN LStrip(Tail(s), ch) ELSE s

Strip(s, ch) == LStrip(RStrip(s, ch), ch)

\* float(s): the numerals the environments use; anything else is a ValueError
ParseFloat(s) ==
    CASE s = <<"30">> -> [ok |-> TRUE, value |-> 30]
      [] OTHER        -> [ok |-> FALSE, value |-> 0]

----------------------------------------------------------------------------
(* process environment *)

Getenv(e, name, default) == IF name \in DOMAIN e THEN e[name] ELSE default

\* variant: only an unset name counts ("if api_key is None")
GetenvFalsy_OnlyNone(e, name) == name \notin DOMAIN e

\* "not os.getenv(NAME)": None (unset) and "" are both falsy
GetenvFalsy(e, name) == name \notin DOMAIN e \/ e[name] = <<>>

DefaultBaseUrl == <<"https:", "/", "/", "api.ui.com">>
DefaultApiVersion == <<"v1">>
DefaultTimeout == <<"30">>

CustomBaseUrl == <<"https:", "/", "/", "gw.local", "/">>
CustomApiVersion == <<"/", "v2", "/">>

Environs ==
    { <<>>,
      [UNIFI_API_KEY |-> <<>>, UNIFI_BASE_URL |-> CustomBaseUrl,
       UNIFI_API_VERSION |-> CustomApiVersion],
      [UNIFI_API_KEY |-> <<"key">>, UNIFI_BASE_URL |-> CustomBaseUrl,
       UNIFI_API_VERSION |-> CustomApiVersion],
      [UNIFI_API_KEY |-> <<"key">>, UNIFI_TIMEOUT |-> <<"abc">>] }

----------------------------------------------------------------------------
(* outcomes of a call *)

NoOutcome == [kind |-> "none"]
Return(v) == [kind |-> "return", value |-> v]
Raise(k, m) == [kind |-> k, msg |-> m]
RaiseStatus(resp) ==
    [kind |-> "HTTPStatusError", status |-> resp.status, body |-> resp.body]

----------------------------------------------------------------------------
(* unifi_api.py: UniFiSiteManagerClient *)

\* a heap slot that holds no object
Absent ==
    [state |-> "none", base_url |-> <<>>, headers |-> <<>>,
     timeout_s |-> 0, closes |-> 0]

\* __init__: the key check, the three settings, then httpx.AsyncClient(...)
Construct(e) ==
    IF GetenvFalsy(e, "UNIFI_API_KEY")
    THEN [ok |-> FALSE, obj |-> Absent,
          error |-> Raise("RuntimeError", "UNIFI_API_KEY is required")]
    ELSE LET base_url == RStrip(Getenv(e, "UNIFI_BASE_URL", DefaultBaseUrl), "/")
             version  == Strip(Getenv(e, "UNIFI_API_VERSION", DefaultApiVersion), "/")
             timeout  == ParseFloat(Getenv(e, "UNIFI_TIMEOUT", DefaultTimeout))
         IN  IF ~timeout.ok
             THEN [ok |-> FALSE, obj |-> Absent,
                   error |-> Raise("ValueError", "could not convert string to float")]
             ELSE [ok |-> TRUE, error |-> NoOutcome,
                   obj |-> [state |-> "open",
                            base_url |-> base_url \o <<"/">> \o version,
                            headers |-> [X_API_KEY |-> e["UNIFI_API_KEY"],
                                         Accept |-> <<"application/json">>],
                            timeout_s |-> timeout.value,
                            closes |-> 0]]

\* variant: close() leaves the AsyncClient alone
AClose_Skipped(cl) == cl

\* close(): await self._client.aclose(), as far as the call itself goes
AClose(cl) == [cl EXCEPT !.state = "closed", !.closes = @ + 1]

\* variant: an empty site_id is left out of the query
ListDevicesRequest_DropEmpty(site_id) ==
    [path |-> <<"/", "devices">>,
     params |-> IF site_id = <<>> THEN <<>> ELSE [siteId |-> site_id]]

\* the path and the query parameters each method hands to self._client.get
ListHostsRequest == [path |-> <<"/", "hosts">>, params |-> <<>>]
ListSitesRequest == [path |-> <<"/", "sites">>, params |-> <<>>]
ListDevicesRequest(site_id) ==
    [path |-> <<"/", "devices">>, params |-> [siteId |-> site_id]]
GetIspMetricsRequest(site_id) ==
    [path |-> <<"/", "isp-metrics">>, params |-> [siteId |-> site_id]]

\* variant: the GET is sent a second time
Get_Twice(cl, log, req) ==
    LET q == [method |-> "GET", url |-> cl.base_url \o req.path,
              params |-> req.params, headers |-> cl.headers]
    IN  Append(Append(log, q), q)

\* self._client.get(path, params=...): one GET goes out on this client
Get(cl, log, req) ==
    Append(log, [method |-> "GET", url |-> cl.base_url \o req.path,
                 params |-> req.params, headers |-> cl.headers])

\* Response.is_success
IsSuccess(status) == status \in 200..299

\* wire bodies the upstream may send
HostsBody == "{\"hosts\":[]}"
ErrorBody == "{\"code\":\"NOT_FOUND\"}"
MalformedBody == "<html>gateway</html>"

\* Response.json(): the decoded value of a wire body, or a decode failure
JsonLoads(text) ==
    CASE text = HostsBody -> [ok |-> TRUE, value |-> [hosts |-> <<>>]]
      [] text = ErrorBody -> [ok |-> TRUE, value |-> [code |-> "NOT_FOUND"]]
      [] OTHER -> [ok |-> FALSE, value |-> <<>>]

\* variant: the decoded body is wrapped before it is returned
RaiseForStatusThenJson_Wrapped(resp) ==
    IF ~(resp.status \in 200..299)
    THEN RaiseStatus(resp)
    ELSE LET d == JsonLoads(resp.body)
         IN  IF d.ok THEN Return([data |-> d.value])
             ELSE Raise("JSONDecodeError", "Expecting value")

\* r.raise_for_status(); return r.json()
RaiseForStatusThenJson(resp) ==
    IF ~IsSuccess(resp.status)
    THEN RaiseStatus(resp)
    ELSE LET d == JsonLoads(resp.body)
         IN  IF d.ok THEN Return(d.value)
             ELSE Raise("JSONDecodeError", "Expecting value")

\* what the upstream may answer to a request
UpstreamAnswers ==
    { [status |-> 200, body |-> HostsBody],
      [status |-> 200, body |-> MalformedBody],
      [status |-> 301, body |-> ""],
      [status |-> 404, body |-> ErrorBody] }

NoResponse == [status |-> 0, body |-> "", request |-> <<>>]

----------------------------------------------------------------------------
(* server.py: the tools *)

SiteIds == { <<>>, <<"abc">> }

\* variant: one module-level client shared by every invocation
Fresh_Shared(i) == 1

\* UniFiSiteManagerClient(): a new object, distinct from every other one
Fresh(i) == i

\* variant: health() reports the base URL the way the client normalises it
HealthResult_Stripped(e) ==
    [status |-> <<"ok">>,
     transport |-> <<"streamable-http">>,
     base_url |-> RStrip(Getenv(e, "UNIFI_BASE_URL", DefaultBaseUrl), "/"),
     api_version |-> Strip(Getenv(e, "UNIFI_API_VERSION", DefaultApiVersion), "/")]

\* the dict health() returns
HealthResult(e) ==
    [status |-> <<"ok">>,
     transport |-> <<"streamable-http">>,
     base_url |-> Getenv(e, "UNIFI_BASE_URL", DefaultBaseUrl),
     api_version |-> Getenv(e, "UNIFI_API_VERSION", DefaultApiVersion)]

Init ==
    /\ environ \in Environs
    /\ pc = [i \in Tasks |-> "idle"]
    /\ tool = [i \in Tasks |-> "none"]
    /\ arg = [i \in Tasks |-> <<>>]
    /\ c = [i \in Tasks |-> NoClient]
    /\ r = [i \in Tasks |-> NoResponse]
    /\ op = [i \in Tasks |-> NoOutcome]
    /\ result = [i \in Tasks |-> NoOutcome]
    /\ clients = [k \in ClientIds |-> Absent]
    /\ sent = [k \in ClientIds |-> <<>>]
    /\ stalled = [k \in ClientIds |-> FALSE]

Health(i) ==
    /\ pc[i] = "idle"
    /\ tool' = [tool EXCEPT ![i] = "health"]
    /\ result' = [result EXCEPT ![i] = Return(HealthResult(environ))]
    /\ pc' = [pc EXCEPT ![i] = "done"]
    /\ UNCHANGED <<environ, arg, c, r, op, clients, sent, stalled>>

\* c = UniFiSiteManagerClient(); try: return await c.<method>(...)
\* up to the suspension at the GET, or to the constructor's raise
Invoke(i, name, site_id, req) ==
    /\ pc[i] = "idle"
    /\ tool' = [tool EXCEPT ![i] = name]
    /\ arg' = [arg EXCEPT ![i] = site_id]
    /\ LET k == Construct(environ)
       IN  IF ~k.ok
           THEN /\ result' = [result EXCEPT ![i] = k.error]
                /\ pc' = [pc EXCEPT ![i] = "done"]
                /\ UNCHANGED <<c, clients, sent>>
           ELSE /\ c' = [c EXCEPT ![i] = Fresh(i)]
                /\ clients' = [clients EXCEPT ![Fresh(i)] = k.obj]
                /\ sent' = [sent EXCEPT ![Fresh(i)] = Get(k.obj, @, req)]
                /\ pc' = [pc EXCEPT ![i] = "awaiting"]
                /\ UNCHANGED result
    /\ UNCHANGED <<environ, r, op, stalled>>

ListHosts(i) == Invoke(i, "list_hosts", <<>>, ListHostsRequest)

ListSites(i) == Invoke(i, "list_sites", <<>>, ListSitesRequest)

ListDevices(i, site_id) ==
    Invoke(i, "list_devices", site_id, ListDevicesRequest(site_id))

GetIspMetrics(i, site_id) ==
    Invoke(i, "get_isp_metrics", site_id, GetIspMetricsRequest(site_id))

\* the method ended with outcome o; finally: await c.close() is entered
EnterFinally(i, o) ==
    /\ op' = [op EXCEPT ![i] = o]
    /\ clients' = [clients EXCEPT ![c[i]] = AClose(@)]
    /\ pc' = [pc EXCEPT ![i] = "closing"]

\* the GET of task i is answered: raise_for_status, json, then the finally
UpstreamResponds(i, a) ==
    /\ pc[i] = "awaiting"
    /\ ~stalled[c[i]]
    /\ \E n \in DOMAIN sent[c[i]] :
          LET resp == [status |-> a.status, body |-> a.body,
                       request |-> sent[c[i]][n]]
          IN  /\ r' = [r EXCEPT ![i] = resp]
              /\ EnterFinally(i, RaiseForStatusThenJson(resp))
    /\ UNCHANGED <<environ, tool, arg, c, result, sent, stalled>>

\* the upstream keeps the request unanswered past timeout_s
UpstreamStalls(i) ==
    /\ pc[i] = "awaiting"
    /\ ~stalled[c[i]]
    /\ stalled' = [stalled EXCEPT ![c[i]] = TRUE]
    /\ UNCHANGED <<environ, pc, tool, arg, c, r, op, result, clients, sent>>

\* httpx ends the stalled GET with a timeout exception
TimeoutFires(i) ==
    /\ pc[i] = "awaiting"
    /\ stalled[c[i]]
    /\ EnterFinally(i, Raise("ReadTimeout", "timed out"))
    /\ UNCHANGED <<environ, tool, arg, c, r, result, sent, stalled>>

\* the GET fails in the network
NetworkFails(i) ==
    /\ pc[i] = "awaiting"
    /\ ~stalled[c[i]]
    /\ EnterFinally(i, Raise("ConnectError", "connection failed"))
    /\ UNCHANGED <<environ, tool, arg, c, r, result, sent, stalled>>

\* aclose() returns: the try's return value or exception goes on to the caller
CloseReturns(i) ==
    /\ pc[i] = "closing"
    /\ result' = [result EXCEPT ![i] = op[i]]
    /\ pc' = [pc EXCEPT ![i] = "done"]
    /\ UNCHANGED <<environ, tool, arg, c, r, op, clients, sent, stalled>>

\* aclose() raises: the exception of the finally block goes on to the caller
CloseRaises(i) ==
    /\ pc[i] = "closing"
    /\ result' = [result EXCEPT ![i] = Raise("CloseError", "aclose failed")]
    /\ pc' = [pc EXCEPT ![i] = "done"]
    /\ UNCHANGED <<environ, tool, arg, c, r, op, clients, sent, stalled>>

Next ==
    \E i \in Tasks :
        \/ Health(i)
        \/ ListHosts(i)
        \/ ListSites(i)
        \/ \E s \in SiteIds : ListDevices(i, s)
        \/ \E s \in SiteIds : GetIspMetrics(i, s)
        \/ \E a \in UpstreamAnswers : UpstreamResponds(i, a)
        \/ UpstreamStalls(i)
        \/ TimeoutFires(i)
        \/ NetworkFails(i)
        \/ CloseReturns(i)
        \/ CloseRaises(i)

Spec == Init /\ [][Next]_vars

\* the event loop runs every ready task, httpx enforces its timeout, and
\* aclose ends one way or the other
Fairness ==
    \A i \in Tasks :
        /\ WF_vars(TimeoutFires(i))
        /\ WF_vars(CloseReturns(i) \/ CloseRaises(i))

FairSpec == Spec /\ Fairness

----------------------------------------------------------------------------
(* properties *)

ClientTools == {"list_hosts", "list_sites", "list_devices", "get_isp_metrics"}
SiteTools == {"list_devices", "get_isp_metrics"}

KeyAbsent ==
    \/ "UNIFI_API_KEY" \notin DOMAIN environ
    \/ environ["UNIFI_API_KEY"] = <<>>

\* how many times the client of invocation i has been closed
Closes(i) == IF c[i] = NoClient THEN 0 ELSE clients[c[i]].closes

FixedPath(name) ==
    CASE name = "list_hosts"      -> <<"/", "hosts">>
      [] name = "list_sites"      -> <<"/", "sites">>
      [] name = "list_devices"    -> <<"/", "devices">>
      [] name = "get_isp_metrics" -> <<"/", "isp-metrics">>

TransportErrorKinds == {"ReadTimeout", "ConnectError"}

\* C1 as stated: every ended invocation of a client tool, whatever its
\* outcome (configuration failure included), has closed its client exactly
\* once.
C1_ClosedOnceOnEveryOutcome ==
    \A i \in Tasks :
        (pc[i] = "done" /\ tool[i] \in ClientTools) => Closes(i) = 1

\* C1 amended: an invocation whose client was constructed never closes it
\* twice and has closed it exactly once when it ends, with any outcome of the
\* operation and of the close; an invocation that ends without a client is
\* one whose constructor raised, and it closes nothing.
C1_ClosedOnceWhenConstructed ==
    \A i \in Tasks :
        /\ c[i] # NoClient =>
              /\ clients[c[i]].closes <= 1
              /\ pc[i] = "awaiting" => clients[c[i]].closes = 0
              /\ pc[i] = "done" =>
                    clients[c[i]].closes = 1 /\ clients[c[i]].state = "closed"
        /\ (pc[i] = "done" /\ tool[i] \in ClientTools /\ c[i] = NoClient) =>
              /\ ~Construct(environ).ok
              /\ result[i] = Construct(environ).error
              /\ r[i] = NoResponse

C1_Witness ==
    \E i \in Tasks :
        /\ pc[i] = "done" /\ c[i] # NoClient
        /\ op[i].kind = "HTTPStatusError"
        /\ result[i].kind = "CloseError"
        /\ clients[c[i]].closes = 1

\* C2: with UNIFI_API_KEY unset or empty, every client tool ends with the
\* constructor's "UNIFI_API_KEY is required" error, no client object and no
\* HTTP connection context exists, and no request has been issued.
C2_NoKeyNoClientNoRequest ==
    KeyAbsent =>
        /\ \A i \in Tasks :
              tool[i] \in ClientTools =>
                 /\ pc[i] = "done"
                 /\ result[i] = Raise("RuntimeError", "UNIFI_API_KEY is required")
                 /\ c[i] = NoClient
        /\ \A k \in ClientIds : clients[k].state = "none" /\ sent[k] = <<>>

C2_Witness ==
    /\ "UNIFI_API_KEY" \in DOMAIN environ
    /\ environ["UNIFI_API_KEY"] = <<>>
    /\ \E i \in Tasks :
          /\ tool[i] = "list_devices" /\ pc[i] = "done"
          /\ result[i].kind = "RuntimeError"

\* C3: a response with a non-success status makes the client operation, and
\* the tool invocation, fail with the status error carrying that status and
\* that body; no value is returned.
C3_NonSuccessFailsWithUpstreamError ==
    \A i \in Tasks :
        (r[i] # NoResponse /\ r[i].status \notin 200..299) =>
            /\ op[i] = [kind |-> "HTTPStatusError",
                        status |-> r[i].status, body |-> r[i].body]
            /\ pc[i] = "done" => result[i] = op[i]

\* C3, the client operation alone (the part the code keeps)
C3_OperationRaisesStatusError ==
    \A i \in Tasks :
        (r[i] # NoResponse /\ r[i].status \notin 200..299) =>
            op[i] = [kind |-> "HTTPStatusError",
                     status |-> r[i].status, body |-> r[i].body]

\* C4: an invocation whose request stalled past the timeout ends with a
\* transport error, and every other invocation ends with the outcome of its
\* own operation.
C4_StallEndsWithTransportError ==
    \A i \in Tasks :
        (pc[i] = "done" /\ c[i] # NoClient /\ stalled[c[i]]) =>
            /\ result[i].kind \in TransportErrorKinds
            /\ \A j \in Tasks \ {i} :
                  (pc[j] = "done" /\ c[j] # NoClient) => result[j] = op[j]

\* C4, the part the code keeps: a stalled invocation does not hang
C4_StalledInvocationEnds ==
    \A i \in Tasks :
        (pc[i] = "awaiting" /\ c[i] # NoClient /\ stalled[c[i]]) ~> (pc[i] = "done")

\* C5: invocations never share a client; a client whose request is in
\* flight is open and has not been closed by anyone; the response an
\* invocation receives answers the one request it issued itself.
C5_OwnClientOwnResponse ==
    \A i \in Tasks :
        /\ \A j \in Tasks \ {i} : c[i] # NoClient => c[i] # c[j]
        /\ pc[i] = "awaiting" =>
              clients[c[i]].state = "open" /\ clients[c[i]].closes = 0
        /\ r[i] # NoResponse =>
              /\ sent[c[i]] = <<r[i].request>>
              /\ r[i].request.url = clients[c[i]].base_url \o FixedPath(tool[i])
              /\ tool[i] \in SiteTools => r[i].request.params = [siteId |-> arg[i]]

C5_Witness ==
    \E i \in Tasks : \E j \in Tasks \ {i} :
        /\ pc[i] = "done" /\ r[i] # NoResponse
        /\ pc[j] = "awaiting"
        /\ tool[i] = "list_sites" /\ tool[j] = "list_sites"

\* C6: what the caller of an ended tool invocation receives is the outcome
\* of the client operation, whatever the close step did.
C6_CallerReceivesOperationOutcome ==
    \A i \in Tasks :
        (pc[i] = "done" /\ c[i] # NoClient) => result[i] = op[i]

\* C7: health() ends at once in every environment with status "ok", the
\* transport name, and base_url and api_version as the environment gives
\* them (or their defaults); it holds no client, has no response, and every
\* client object and every issued request belongs to an invocation of
\* another tool.
C7_HealthIsPure ==
    \A i \in Tasks :
        tool[i] = "health" =>
            /\ pc[i] = "done"
            /\ result[i] =
                  Return([status |-> <<"ok">>,
                          transport |-> <<"streamable-http">>,
                          base_url |->
                              IF "UNIFI_BASE_URL" \in DOMAIN environ
                              THEN environ["UNIFI_BASE_URL"] ELSE DefaultBaseUrl,
                          api_version |->
                              IF "UNIFI_API_VERSION" \in DOMAIN environ
                              THEN environ["UNIFI_API_VERSION"]
                              ELSE DefaultApiVersion])
            /\ c[i] = NoClient /\ r[i] = NoResponse /\ op[i] = NoOutcome
            /\ \A k \in ClientIds :
                  (clients[k].state # "none" \/ sent[k] # <<>>) =>
                      \E j \in Tasks \ {i} : c[j] = k /\ tool[j] \in ClientTools

C7_Witness ==
    \E i \in Tasks :
        /\ tool[i] = "health" /\ pc[i] = "done"
        /\ KeyAbsent
        /\ result[i].value.base_url = CustomBaseUrl

C9_EmptySiteIdIssuesNoGet ==
    \A i \in Tasks :
        (tool[i] \in SiteTools /\ arg[i] = <<>>) =>
            (c[i] = NoClient \/ sent[c[i]] = <<>>)

\* C9 amended: list_devices and get_isp_metrics do not check site_id; once
\* the client is constructed the GET goes out with the given site_id, empty
\* or not, unchanged as the siteId query parameter.
C9_SiteIdForwardedUnchecked ==
    \A i \in Tasks :
        (tool[i] \in SiteTools /\ c[i] # NoClient) =>
            /\ Len(sent[c[i]]) = 1
            /\ sent[c[i]][1].params = [siteId |-> arg[i]]

C9_Witness ==
    \E i \in Tasks :
        /\ tool[i] = "list_devices" /\ arg[i] = <<>> /\ c[i] # NoClient
        /\ sent[c[i]][1].params.siteId = <<>>
        /\ r[i] # NoResponse

\* C10: an invocation whose client was constructed has issued exactly one
\* request, a GET to the fixed path of its tool, while the client was still
\* unclosed, and no further request is issued afterwards, whatever the
\* outcome.
C10_ExactlyOneGet ==
    \A i \in Tasks :
        (tool[i] \in ClientTools /\ c[i] # NoClient) =>
            /\ Len(sent[c[i]]) = 1
            /\ sent[c[i]][1].method = "GET"
            /\ sent[c[i]][1].url = clients[c[i]].base_url \o FixedPath(tool[i])
            /\ pc[i] = "awaiting" => clients[c[i]].closes = 0

C10_Witness ==
    \E i \in Tasks :
        /\ tool[i] = "get_isp_metrics" /\ pc[i] = "done"
        /\ op[i].kind \in TransportErrorKinds
        /\ Len(sent[c[i]]) = 1

====
